---- MODULE Spec2Model ----
(***************************************************************************)
(* A model of the sucrim toolkit's stateful parts:                         *)
(*   - KeycloakAuthProvider (sucrim/keycloak/keycloak_auth_provider.py):   *)
(*     the cached admin token, its expiry, the last-init timestamp and the *)
(*     HTTP client handle, driven by construction, the three accessors and *)
(*     close();                                                            *)
(*   - the two module-level singletons of keycloak_config.py, called       *)
(*     one at a time (SpecConfig) and from concurrent threads              *)
(*     (SpecConfigConc);                                                   *)
(*   - KeycloakJwtDecoder.decode_token (SpecDecoder), and the mapping of   *)
(*     claims to the user it returns (SpecDecoderClaims);                  *)
(*   - the error types and the exception handlers that turn a raised       *)
(*     exception into a response (SpecAdapter);                            *)
(*   - the paginated constructors of ApiResponseDto (SpecPage);            *)
(*   - the credentials of the token request (SpecCredentials), and         *)
(*     get_admin_access_token called from two threads (SpecProviderConc).  *)
(* Time is in seconds.  A call reads the clock once: every time.time() of  *)
(* one call returns the same value, and the clock moves between calls.     *)
(***************************************************************************)
EXTENDS Integers, Sequences, FiniteSets, TLC

VARIABLES
    now,                \* time.time()
    exists,             \* a KeycloakAuthProvider has been constructed
    config,             \* self.config
    access_token,       \* self._access_token
    token_expires_at,   \* self._token_expires_at
    last_init_time,     \* self._last_init_time
    client,             \* self._client (NoClient: None)
    nClients,           \* httpx.AsyncClient objects created so far
    openClients,        \* the created clients that were never aclose()d
    last,               \* history: the last call, its pre-state and its outcome
    environ,            \* os.environ, the seven KC_ variables
    nEnvChanges,        \* changes made to the environment so far
    keycloak_config,    \* the module global _keycloak_config (id 0: None)
    idp_instance,       \* the module global _idp_instance (id 0: None)
    nConfigs,           \* KeycloakConfig objects constructed so far
    nIdps,              \* FastAPIKeycloak objects constructed so far
    nStores,            \* assignments made to _keycloak_config so far
    envAtBuild,         \* history: the environment when the first KeycloakConfig was built
    cfgReturned,        \* history: the objects get_keycloak_config has returned
    idpReturned,        \* history: the objects get_idp has returned
    pc,                 \* per thread: its place in get_keycloak_config
    local,              \* per thread: the KeycloakConfig it has built
    nCalls,             \* per thread: the calls it has started
    dec_token,          \* the argument of the decode_token call
    dec_lib,            \* what the JWT library and the user model do in that call
    dec_result,         \* what the call returned or raised (kind "none": not called yet)
    adp_input,          \* the exception class a route handler instantiates, with the arguments
    adp_exc,            \* the exception the route handler raised (class "none": not yet)
    adp_response,       \* the response the exception handlers gave (status 0: not yet)
    pag_input,          \* the paginated constructor called, with its arguments
    pag_result,         \* the response it returned, as <<response>> (<<>>: not called yet)
    adp_dict,           \* to_dict() of the raised error, as <<dict>> (<<>>: not called yet)
    thr,                \* per thread: its place in get_admin_access_token, and its locals
    cred_request        \* the token request _refresh_token built (kind "none": not called yet)

provVars == <<now, exists, config, access_token, token_expires_at, last_init_time,
              client, nClients, openClients, last>>

cfgVars == <<environ, nEnvChanges, keycloak_config, idp_instance, nConfigs, nIdps,
             nStores, envAtBuild, cfgReturned, idpReturned, pc, local, nCalls>>

decVars == <<dec_token, dec_lib, dec_result>>

httpVars == <<adp_input, adp_exc, adp_response, pag_input, pag_result, adp_dict>>

reqVars == <<thr, cred_request>>

vars == <<provVars, cfgVars, decVars, httpVars, reqVars>>

----------------------------------------------------------------------------
(* Bounds of the model *)

\* calls are made at the instants of TimePoints: every TickSeconds for the
\* first EarlyTicks ticks after the first constructor call, and again from
\* RECONNECT_INTERVAL_SECONDS after it, for LateTicks ticks
EarlyTicks == 5
LateTicks == 2
\* constructor attempts that may fail before one succeeds
MaxConstructs == 2

----------------------------------------------------------------------------
(* Program constants *)

RECONNECT_INTERVAL_SECONDS == 900
DEFAULT_EXPIRES_IN == 300
REFRESH_MARGIN == 60

\* the clock's step is the refresh margin, so that a token's expiry
\* (fetch time + expires_in - 60) is an instant of the clock
TickSeconds == REFRESH_MARGIN

TimePoints ==
    { k * TickSeconds : k \in 0..EarlyTicks }
    \cup { RECONNECT_INTERVAL_SECONDS + k * TickSeconds : k \in 0..LateTicks }

\* Python's None, for the string-valued fields
None == "None"
\* self._client = None
NoClient == 0

\* Python truthiness of an Optional[str]
Truthy(s) == s # None /\ s # ""

\* the prefix both classes name BEARER_PREFIX
BEARER_PREFIX == "Bearer "

\* the fields of KeycloakConfig
Fields == {"server_url", "client_id", "client_secret", "admin_client_id",
           "admin_client_secret", "realm", "callback_uri"}

----------------------------------------------------------------------------
(* The identity provider's answers to the token request *)

Tokens == {"tokA", "tokB"}

\* expires_in values a 2xx body may carry (has_expires_in = FALSE: the key is absent)
ExpiresInVals == {60, 120, 1200}

\* kind: "2xx" (a JSON body), "http_error" (raise_for_status or a network
\* failure: httpx.HTTPError), "bad_body" (a 2xx whose body is not JSON)
Responses ==
    { [kind |-> "2xx", access_token |-> a, has_expires_in |-> TRUE, expires_in |-> e] :
        a \in Tokens, e \in ExpiresInVals }
    \cup { [kind |-> "2xx", access_token |-> a, has_expires_in |-> FALSE, expires_in |-> 0] :
        a \in Tokens }
    \cup { [kind |-> "2xx", access_token |-> None, has_expires_in |-> TRUE, expires_in |-> 120] }
    \cup { [kind |-> k, access_token |-> None, has_expires_in |-> FALSE, expires_in |-> 0] :
        k \in {"http_error", "bad_body"} }

\* configurations a provider is constructed with: a complete one, and one
\* whose realm is not set
FullConfig == [f \in Fields |-> "set"]
ProviderConfigs == {FullConfig, [FullConfig EXCEPT !["realm"] = None]}

\* the fields as __init__ sets them before _initialize()
FreshProvider(cfg) ==
    [config |-> cfg, access_token |-> None, token_expires_at |-> 0,
     last_init_time |-> 0, client |-> NoClient]

\* no provider object
NoProvider == FreshProvider([f \in Fields |-> None])

\* an outcome of an internal step: the provider's fields after it, the exception
\* it raised ("none": it returned) and the token requests it sent
Outcome(p, exc, reqs) == [p |-> p, exc |-> exc, reqs |-> reqs]

----------------------------------------------------------------------------
(* KeycloakAuthProvider *)

\* token_data.get("expires_in", 300)
ExpiresIn(resp) == IF resp.has_expires_in THEN resp.expires_in ELSE DEFAULT_EXPIRES_IN

\* a variant without the early-refresh margin
ExpiryOf_NoMargin(t, resp) == t + ExpiresIn(resp)

\* time.time() + expires_in - 60
ExpiryOf(t, resp) == t + ExpiresIn(resp) - REFRESH_MARGIN

\* a variant that logs a failed request and returns the cached token
RefreshToken_Swallow(p, t, resp) ==
    IF ~Truthy(p.config["server_url"]) \/ ~Truthy(p.config["realm"])
    THEN Outcome(p, "ValueError", <<>>)
    ELSE IF resp.kind # "2xx"
    THEN Outcome(p, "none", <<resp>>)
    ELSE LET q == [p EXCEPT !.access_token = resp.access_token,
                            !.token_expires_at = ExpiryOf(t, resp)]
         IN  IF ~Truthy(q.access_token)
             THEN Outcome(q, "ValueError", <<resp>>)
             ELSE Outcome(q, "none", <<resp>>)

\* _refresh_token: the configuration check, then one POST, answered by resp
RefreshToken(p, t, resp) ==
    IF ~Truthy(p.config["server_url"]) \/ ~Truthy(p.config["realm"])
    THEN Outcome(p, "ValueError", <<>>)
    ELSE IF resp.kind = "http_error"
    THEN Outcome(p, "RuntimeError", <<resp>>)
    ELSE IF resp.kind = "bad_body"
    THEN Outcome(p, "ValueError", <<resp>>)
    ELSE LET q == [p EXCEPT !.access_token = resp.access_token,
                            !.token_expires_at = ExpiryOf(t, resp)]
         IN  IF ~Truthy(q.access_token)
             THEN Outcome(q, "ValueError", <<resp>>)
             ELSE Outcome(q, "none", <<resp>>)

\* Python's `a or b` on two Optional[str]
OrElse(a, b) == IF Truthy(a) THEN a ELSE b

\* the form data _refresh_token posts to the token endpoint
TokenRequestData(cfg) ==
    [grant_type |-> "client_credentials",
     client_id |-> OrElse(cfg["admin_client_id"], cfg["client_id"]),
     client_secret |-> OrElse(cfg["admin_client_secret"], cfg["client_secret"])]

\* _initialize: a new client, the timestamp, then the token; any exception
\* becomes a RuntimeError
Initialize(p, t, newClient, resp) ==
    LET q == [p EXCEPT !.client = newClient, !.last_init_time = t]
        r == RefreshToken(q, t, resp)
    IN  IF r.exc # "none" THEN Outcome(r.p, "RuntimeError", r.reqs) ELSE r

\* a variant that never raises
EnsureInitialized_NoCheck(p) == TRUE

\* _ensure_initialized: raises when the client is None
EnsureInitialized(p) == p.client # NoClient

\* a variant that reconnects at exactly the interval
ReconnectDue_AtInterval(p, t) == t - p.last_init_time >= RECONNECT_INTERVAL_SECONDS

\* the test of _reconnect_if_needed
ReconnectDue(p, t) == t - p.last_init_time > RECONNECT_INTERVAL_SECONDS

\* _reconnect_if_needed
ReconnectIfNeeded(p, t, newClient, resp) ==
    IF ReconnectDue(p, t) THEN Initialize(p, t, newClient, resp)
    ELSE Outcome(p, "none", <<>>)

\* a variant that refreshes on every call
TokenExpired_Always(p, t) == TRUE

\* the expiry test of get_admin_access_token
TokenExpired(p, t) == t >= p.token_expires_at

\* a variant without the second test, `if not self._access_token`
GetAdminAccessToken_NoTokenCheck(p, t, newClient, r1, r2) ==
    IF ~EnsureInitialized(p) THEN Outcome(p, "RuntimeError", <<>>)
    ELSE
    LET a == ReconnectIfNeeded(p, t, newClient, r1)
    IN  IF a.exc # "none" THEN a
        ELSE IF TokenExpired(a.p, t)
        THEN LET f == RefreshToken(a.p, t, IF a.reqs = <<>> THEN r1 ELSE r2)
             IN  Outcome(f.p, f.exc, a.reqs \o f.reqs)
        ELSE a

\* get_admin_access_token; r1 and r2 answer its first and second token request
GetAdminAccessToken(p, t, newClient, r1, r2) ==
    IF ~EnsureInitialized(p) THEN Outcome(p, "RuntimeError", <<>>)
    ELSE
    LET a == ReconnectIfNeeded(p, t, newClient, r1)
    IN  IF a.exc # "none" THEN a
        ELSE
        LET rb == IF a.reqs = <<>> THEN r1 ELSE r2
            b == IF TokenExpired(a.p, t)
                 THEN LET f == RefreshToken(a.p, t, rb)
                      IN  Outcome(f.p, f.exc, a.reqs \o f.reqs)
                 ELSE a
        IN  IF b.exc # "none" THEN b
            ELSE
            LET rc == IF b.reqs = <<>> THEN r1 ELSE r2
            IN  IF ~Truthy(b.p.access_token)
                THEN LET f == RefreshToken(b.p, t, rc)
                     IN  Outcome(f.p, f.exc, b.reqs \o f.reqs)
                ELSE b

\* return self._access_token
TokenOf(o) == IF o.exc = "none" THEN <<o.p.access_token>> ELSE <<>>

\* get_admin_access_token_string: f"{self.BEARER_PREFIX}{token}"
BearerStringOf(o) == IF o.exc = "none" THEN <<BEARER_PREFIX>> \o TokenOf(o) ELSE <<>>

\* a variant that also refreshes an expired token
GetClient_Refreshing(p, t, newClient, r1) == GetAdminAccessToken(p, t, newClient, r1, r1)

\* get_client
GetClient(p, t, newClient, r1) ==
    IF ~EnsureInitialized(p) THEN Outcome(p, "RuntimeError", <<>>)
    ELSE ReconnectIfNeeded(p, t, newClient, r1)

\* close
Close(p) == IF p.client # NoClient THEN [p EXCEPT !.client = NoClient] ELSE p

----------------------------------------------------------------------------
(* keycloak_config.py: KeycloakConfig and the two module-level singletons *)

\* bounds: changes of the environment, concurrent threads, calls per thread
MaxEnvChanges == 2
NThreads == 2
MaxCalls == 2

\* the environment variable each field's default_factory reads
EnvVarOf(f) ==
    CASE f = "server_url" -> "KC_SERVER_URL"
      [] f = "client_id" -> "KC_CLIENT_ID"
      [] f = "client_secret" -> "KC_CLIENT_SECRET"
      [] f = "admin_client_id" -> "KC_ADMIN_CLIENT_ID"
      [] f = "admin_client_secret" -> "KC_ADMIN_CLIENT_SECRET"
      [] f = "realm" -> "KC_REALM"
      [] f = "callback_uri" -> "KC_CALLBACK_URI"

EnvVars == { EnvVarOf(f) : f \in Fields }

\* values of an environment variable (None: unset)
EnvValues == {None, "a", "b"}

\* KeycloakConfig(): every field from environ.get(<its variable>, None)
KeycloakConfig(env) == [f \in Fields |-> env[EnvVarOf(f)]]

\* an object: its identity (the n-th object of its class) and its contents
Object(n, contents) == [id |-> n, contents |-> contents]

\* a module global that is None
Unset == Object(0, [f \in Fields |-> None])

\* a variant that builds a configuration on every call
GetKeycloakConfig_NoMemo(g, env, n) == Object(n + 1, KeycloakConfig(env))

\* get_keycloak_config: _keycloak_config after the call, which is what it returns
GetKeycloakConfig(g, env, n) ==
    IF g.id = 0 THEN Object(n + 1, KeycloakConfig(env)) ELSE g

\* config.model_dump(): the seven fields as keyword arguments
ModelDump(cfg) == [f \in DOMAIN cfg.contents |-> cfg.contents[f]]

\* get_idp when the FastAPIKeycloak constructor succeeds: _idp_instance after
\* the call; cfg is what get_keycloak_config() returned
GetIdp(i, cfg, n) ==
    IF i.id = 0 THEN Object(n + 1, ModelDump(cfg)) ELSE i

CfgInit ==
    /\ environ = [v \in EnvVars |-> "a"]
    /\ nEnvChanges = 0
    /\ keycloak_config = Unset
    /\ idp_instance = Unset
    /\ nConfigs = 0
    /\ nIdps = 0
    /\ nStores = 0
    /\ envAtBuild = [v \in EnvVars |-> None]
    /\ cfgReturned = {}
    /\ idpReturned = {}
    /\ pc = [t \in 1..NThreads |-> "idle"]
    /\ local = [t \in 1..NThreads |-> Unset]
    /\ nCalls = [t \in 1..NThreads |-> 0]

\* the process environment changes (os.environ[v] = x, or del os.environ[v])
SetEnv ==
    /\ nEnvChanges < MaxEnvChanges
    /\ \E v \in EnvVars, x \in EnvValues :
         /\ environ[v] # x
         /\ environ' = [environ EXCEPT ![v] = x]
    /\ nEnvChanges' = nEnvChanges + 1
    /\ UNCHANGED <<keycloak_config, idp_instance, nConfigs, nIdps, nStores, envAtBuild,
                   cfgReturned, idpReturned, pc, local, nCalls>>
    /\ UNCHANGED <<provVars, decVars, httpVars, reqVars>>

\* one whole call of get_keycloak_config()
CallGetKeycloakConfig ==
    /\ LET g == GetKeycloakConfig(keycloak_config, environ, nConfigs)
       IN  /\ keycloak_config' = g
           /\ nConfigs' = IF g.id > nConfigs THEN nConfigs + 1 ELSE nConfigs
           /\ nStores' = IF g.id > nConfigs THEN nStores + 1 ELSE nStores
           /\ envAtBuild' = IF nConfigs = 0 THEN environ ELSE envAtBuild
           /\ cfgReturned' = cfgReturned \cup {g}
    /\ UNCHANGED <<environ, nEnvChanges, idp_instance, nIdps, idpReturned, pc, local,
                   nCalls>>
    /\ UNCHANGED <<provVars, decVars, httpVars, reqVars>>

\* one whole call of get_idp(); ok: the FastAPIKeycloak constructor returns
\* (it raises otherwise, and get_idp with it, after get_keycloak_config ran)
CallGetIdp ==
    /\ \E ok \in BOOLEAN :
         LET g == IF idp_instance.id = 0
                  THEN GetKeycloakConfig(keycloak_config, environ, nConfigs)
                  ELSE keycloak_config
             i == IF ok THEN GetIdp(idp_instance, g, nIdps) ELSE idp_instance
         IN  /\ keycloak_config' = g
             /\ nConfigs' = IF g.id > nConfigs THEN nConfigs + 1 ELSE nConfigs
             /\ nStores' = IF g.id > nConfigs THEN nStores + 1 ELSE nStores
             /\ envAtBuild' = IF g.id > nConfigs /\ nConfigs = 0 THEN environ ELSE envAtBuild
             /\ idp_instance' = i
             /\ nIdps' = IF i.id > nIdps THEN nIdps + 1 ELSE nIdps
             /\ idpReturned' = IF i.id # 0 THEN idpReturned \cup {i} ELSE idpReturned
    /\ UNCHANGED <<environ, nEnvChanges, cfgReturned, pc, local, nCalls>>
    /\ UNCHANGED <<provVars, decVars, httpVars, reqVars>>

(* get_keycloak_config called from concurrent threads: the interpreter may
   switch threads between any two of its steps (the test of line 46, the
   constructor call and the assignment of line 47, the read of line 48) *)

Threads == 1..NThreads

cfgFrame == <<environ, nEnvChanges, idp_instance, nIdps, idpReturned>>

\* a thread enters get_keycloak_config
T_Call(t) ==
    /\ pc[t] = "idle"
    /\ nCalls[t] < MaxCalls
    /\ pc' = [pc EXCEPT ![t] = "test"]
    /\ nCalls' = [nCalls EXCEPT ![t] = @ + 1]
    /\ UNCHANGED <<keycloak_config, nConfigs, nStores, envAtBuild, cfgReturned, local>>
    /\ UNCHANGED <<cfgFrame, provVars, decVars, httpVars, reqVars>>

\* line 46: if _keycloak_config is None
T_Test(t) ==
    /\ pc[t] = "test"
    /\ pc' = [pc EXCEPT ![t] = IF keycloak_config.id = 0 THEN "build" ELSE "return"]
    /\ UNCHANGED <<keycloak_config, nConfigs, nStores, envAtBuild, cfgReturned, local,
                   nCalls>>
    /\ UNCHANGED <<cfgFrame, provVars, decVars, httpVars, reqVars>>

\* line 47, right-hand side: KeycloakConfig()
T_Build(t) ==
    /\ pc[t] = "build"
    /\ local' = [local EXCEPT ![t] = Object(nConfigs + 1, KeycloakConfig(environ))]
    /\ nConfigs' = nConfigs + 1
    /\ envAtBuild' = IF nConfigs = 0 THEN environ ELSE envAtBuild
    /\ pc' = [pc EXCEPT ![t] = "store"]
    /\ UNCHANGED <<keycloak_config, nStores, cfgReturned, nCalls>>
    /\ UNCHANGED <<cfgFrame, provVars, decVars, httpVars, reqVars>>

\* line 47, the assignment to the global
T_Store(t) ==
    /\ pc[t] = "store"
    /\ keycloak_config' = local[t]
    /\ nStores' = nStores + 1
    /\ pc' = [pc EXCEPT ![t] = "return"]
    /\ UNCHANGED <<nConfigs, envAtBuild, cfgReturned, local, nCalls>>
    /\ UNCHANGED <<cfgFrame, provVars, decVars, httpVars, reqVars>>

\* line 48: return _keycloak_config
T_Return(t) ==
    /\ pc[t] = "return"
    /\ cfgReturned' = cfgReturned \cup {keycloak_config}
    /\ pc' = [pc EXCEPT ![t] = "idle"]
    /\ UNCHANGED <<keycloak_config, nConfigs, nStores, envAtBuild, local, nCalls>>
    /\ UNCHANGED <<cfgFrame, provVars, decVars, httpVars, reqVars>>

----------------------------------------------------------------------------
(* KeycloakJwtDecoder.decode_token *)

\* bound: the length of a token string, in symbols
MaxTokenLen == 4

JWT_PARTS_COUNT == 3

\* A token string is a sequence of symbols: the prefix "Bearer " as one
\* symbol, a whitespace character, a dot, any other character.
Syms == {BEARER_PREFIX, " ", ".", "x"}
TokenStrings == UNION { [1..n -> Syms] : n \in 0..MaxTokenLen }

\* not token or not token.strip(): empty, or whitespace only
IsNullOrEmpty(token) == \A i \in 1..Len(token) : token[i] = " "

\* _normalize_token: one leading "Bearer " removed
NormalizeToken(token) ==
    IF token # <<>> /\ token[1] = BEARER_PREFIX THEN Tail(token) ELSE token

\* len(s.split("."))
SplitCount(str) == 1 + Cardinality({ i \in 1..Len(str) : str[i] = "." })

\* _is_valid_jwt_format
IsValidJwtFormat(token) == SplitCount(NormalizeToken(token)) = JWT_PARTS_COUNT

\* BusinessException.__init__ (errors or []: no list given is the empty list)
BusinessException(class, message, process, status_code, errors) ==
    [class |-> class, message |-> message, process |-> process,
     status_code |-> status_code, errors |-> errors]

\* the value of a keyword argument of a call, or its default
Arg(args, name, default) == IF name \in DOMAIN args THEN args[name] ELSE default

\* the __init__ of the eight subtypes with a fixed status code, called with
\* the keyword arguments args (message, and optionally process and errors)
BadRequestException(args) ==
    BusinessException("BadRequestException", args.message,
                      Arg(args, "process", "Processing Client Request"), 400,
                      Arg(args, "errors", <<>>))
UnauthorizedException(args) ==
    BusinessException("UnauthorizedException", args.message,
                      Arg(args, "process", "Authentication"), 401,
                      Arg(args, "errors", <<>>))
ForbiddenException(args) ==
    BusinessException("ForbiddenException", args.message,
                      Arg(args, "process", "Authorization"), 403,
                      Arg(args, "errors", <<>>))
NotFoundException(args) ==
    BusinessException("NotFoundException", args.message,
                      Arg(args, "process", "Resource Lookup"), 404,
                      Arg(args, "errors", <<>>))
\* a variant with the status code of a bad request
ConflictException_BadRequest(args) ==
    BusinessException("ConflictException", args.message,
                      Arg(args, "process", "Resource Conflict"), 400,
                      Arg(args, "errors", <<>>))
ConflictException(args) ==
    BusinessException("ConflictException", args.message,
                      Arg(args, "process", "Resource Conflict"), 409,
                      Arg(args, "errors", <<>>))
UnprocessableEntityException(args) ==
    BusinessException("UnprocessableEntityException", args.message,
                      Arg(args, "process", "Data Validation"), 422,
                      Arg(args, "errors", <<>>))
InternalServerErrorException(args) ==
    BusinessException("InternalServerErrorException", args.message,
                      Arg(args, "process", "Internal Server Error"), 500,
                      Arg(args, "errors", <<>>))
ServiceUnavailableException(args) ==
    BusinessException("ServiceUnavailableException", args.message,
                      Arg(args, "process", "Service Availability"), 503,
                      Arg(args, "errors", <<>>))

\* ValidationException.__init__ (process is required, status_code optional)
ValidationException(args) ==
    BusinessException("ValidationException", args.message, args.process,
                      Arg(args, "status_code", 422), Arg(args, "errors", <<>>))

\* BusinessException(...) called with keyword arguments (process is required,
\* status_code optional)
BaseBusinessException(args) ==
    BusinessException("BusinessException", args.message, args.process,
                      Arg(args, "status_code", 400), Arg(args, "errors", <<>>))

\* an exception of another class, raised by a library
LibraryError(class) == BusinessException(class, "", "", 0, <<>>)

NoException == LibraryError("none")

\* the outcome of a decode_token call: the user it returned or the exception it
\* raised, and whether jwt.decode had been called
Return(user) == [kind |-> "return", value |-> <<user>>, exc |-> NoException,
                 decoded |-> TRUE]
Raise(exc) == [kind |-> "raise", value |-> <<>>, exc |-> exc, decoded |-> FALSE]
\* an exception raised inside the try block, after jwt.decode was called
RaiseAfterDecode(exc) == [Raise(exc) EXCEPT !.decoded = TRUE]

\* claims a decoded payload may hold (the claim names present, with their values)
ClaimSets == { [c \in {"preferred_username"} |-> "alice"], [c \in {"email"} |-> "a@x"] }

\* where the exp claim of a payload lies relative to the clock at the call
ExpValues == {"absent", "future", "past"}

\* a three-part token as the library sees it: whether its payload parses (to
\* claims, or the library raises JWTError or another exception on it), whether
\* its signature segment is valid, where its exp claim lies, and whether
\* building the KeycloakUser from the claims raises
LibOutcomes ==
    { [kind |-> "claims", claims |-> c, map_raises |-> m, sig_valid |-> sv, exp |-> e] :
        c \in ClaimSets, m \in BOOLEAN, sv \in BOOLEAN, e \in ExpValues }
    \cup { [kind |-> k, claims |-> [c \in {} |-> ""], map_raises |-> FALSE,
            sig_valid |-> TRUE, exp |-> "absent"] :
        k \in {"JWTError", "Exception"} }

\* the options decode_token passes to jwt.decode
DecodeOptions == [verify_signature |-> FALSE]

\* the options jwt.decode validates under: its own defaults, updated with the
\* options of the call
JoseOptions ==
    LET defaults == [verify_signature |-> TRUE, verify_exp |-> TRUE]
    IN  [o \in DOMAIN defaults |->
            IF o \in DOMAIN DecodeOptions THEN DecodeOptions[o] ELSE defaults[o]]

\* jwt.decode(normalized_token, key="", options=...): "claims" when it returns
\* the payload's claims, else the class of the exception it raises
\* (ExpiredSignatureError is a JWTError)
JwtDecode(lib) ==
    IF lib.kind # "claims" THEN lib.kind
    ELSE IF JoseOptions.verify_signature /\ ~lib.sig_valid THEN "JWTError"
    ELSE IF JoseOptions.verify_exp /\ lib.exp = "past" THEN "JWTError"
    ELSE "claims"

----------------------------------------------------------------------------
(* Claim values and the mapping of claims to a KeycloakUser *)

\* A JSON scalar: its type and its string form str(value), a sequence of
\* symbols.  A claim that is not in the payload is not in the claims' domain.
Scalar(type, text) == [type |-> type, text |-> text]
JsonNull == Scalar("null", <<"None">>)
JsonStr(text) == Scalar("str", text)
JsonInt(text) == Scalar("int", text)
\* a list of scalars
List(items) == [type |-> "list", items |-> items]
\* a dictionary as realm_access or a client's entry is read: what .get("roles")
\* gives (None when the key is missing)
Dict(roles) == [type |-> "dict", roles |-> roles]
\* a dictionary as resource_access is read: its values(), in order
Clients(values) == [type |-> "dict", values |-> values]
\* marks a key to leave out of a dictionary
Absent == Scalar("absent", <<>>)

\* the dictionary without the keys marked absent
Present(d) == [k \in { n \in DOMAIN d : d[n].type # "absent" } |-> d[k]]

\* dict.get(name): None when the key is missing
Get(d, name) == IF name \in DOMAIN d THEN d[name] ELSE JsonNull

\* bool(value) of a scalar
Truth(v) ==
    CASE v.type = "str" -> v.text # <<>>
      [] v.type = "int" -> v.text # <<"0">>
      [] OTHER -> FALSE

\* str(value) of a scalar
StrOf(v) == v.text

\* _get_claim_as_string, for string-valued claims
GetClaimAsString(claims, name) == IF name \in DOMAIN claims THEN claims[name] ELSE None

\* issuer.split("/realms/")[1].split("/")[0], for an issuer that contains
\* "/realms/": the text after the first "/realms/", up to the next "/"
RealmSegment(s) ==
    LET first == CHOOSE i \in 1..Len(s) :
                     s[i] = "/realms/" /\ \A j \in 1..(i - 1) : s[j] # "/realms/"
        stops == { j \in (first + 1)..Len(s) : s[j] \in {"/realms/", "/"} }
        stop == IF stops = {} THEN Len(s) + 1
                ELSE CHOOSE j \in stops : \A k \in stops : j <= k
    IN  SubSeq(s, first + 1, stop - 1)

\* a variant that reads the realm claim first
ExtractRealm_ClaimFirst(claims) ==
    LET issuer == Get(claims, "iss")
        realm == Get(claims, "realm")
    IN  IF realm.type # "null" THEN <<StrOf(realm)>>
        ELSE IF issuer.type = "str" /\ \E i \in 1..Len(issuer.text) : issuer.text[i] = "/realms/"
                /\ RealmSegment(issuer.text) # <<>>
        THEN <<RealmSegment(issuer.text)>>
        ELSE <<>>

\* _extract_realm: the realm as <<text>>, or <<>> for None
ExtractRealm(claims) ==
    LET issuer == Get(claims, "iss")
        realm == Get(claims, "realm")
    IN  IF /\ Truth(issuer) /\ issuer.type = "str"
           /\ \E i \in 1..Len(issuer.text) : issuer.text[i] = "/realms/"
           /\ RealmSegment(issuer.text) # <<>>
        THEN <<RealmSegment(issuer.text)>>
        ELSE IF realm.type # "null" THEN <<StrOf(realm)>> ELSE <<>>

\* [str(role) for role in roles if role]
RoleNames(roles) ==
    LET kept == SelectSeq(roles.items, Truth)
    IN  [i \in 1..Len(kept) |-> StrOf(kept[i])]

\* the roles an access entry (realm_access, or one client's entry of
\* resource_access) adds: those of its "roles" list, when it is a dictionary
\* that holds a list under that key
AccessRoles(access) ==
    IF access.type # "dict" THEN <<>>
    ELSE IF access.roles.type # "list" THEN <<>>
    ELSE RoleNames(access.roles)

\* the loop over resource_access.values()
RECURSIVE ClientRoles(_)
ClientRoles(accesses) ==
    IF Len(accesses) = 0 THEN <<>>
    ELSE AccessRoles(Head(accesses)) \o ClientRoles(Tail(accesses))

\* a variant that reads realm_access only
ExtractRoles_RealmOnly(claims) == AccessRoles(Get(claims, "realm_access"))

\* _extract_roles
ExtractRoles(claims) ==
    LET resource_access == Get(claims, "resource_access")
    IN  AccessRoles(Get(claims, "realm_access"))
        \o (IF resource_access.type = "dict" THEN ClientRoles(resource_access.values)
            ELSE <<>>)

\* the KeycloakUser built from the claims (the fields the properties read)
UserOf(claims) ==
    [username |-> GetClaimAsString(claims, "preferred_username"),
     email |-> GetClaimAsString(claims, "email"),
     realm |-> ExtractRealm(claims),
     roles |-> ExtractRoles(claims)]

\* a variant without the "except Exception" clause
HandleDecodeError_JwtOnly(class) ==
    IF class = "JWTError"
    THEN RaiseAfterDecode(UnauthorizedException([message |-> "Failed to decode JWT token",
                                            process |-> "token_decode"]))
    ELSE RaiseAfterDecode(LibraryError(class))

\* the two except clauses of decode_token
HandleDecodeError(class) ==
    IF class = "JWTError"
    THEN RaiseAfterDecode(UnauthorizedException([message |-> "Failed to decode JWT token",
                                            process |-> "token_decode"]))
    ELSE RaiseAfterDecode(UnauthorizedException([message |-> "Failed to decode JWT token",
                                            process |-> "token_decode"]))

\* a variant that checks the format before the blank token
DecodeToken_FormatFirst(token, lib) ==
    IF ~IsValidJwtFormat(token)
    THEN Raise(UnauthorizedException([message |-> "Invalid JWT format",
                                            process |-> "token_decode"]))
    ELSE IF IsNullOrEmpty(token)
    THEN Raise(UnauthorizedException([message |-> "Token is null or empty",
                                            process |-> "token_decode"]))
    ELSE IF JwtDecode(lib) # "claims" THEN HandleDecodeError(JwtDecode(lib))
    ELSE IF lib.map_raises THEN HandleDecodeError("ValidationError")
    ELSE Return(UserOf(lib.claims))

\* decode_token
DecodeToken(token, lib) ==
    IF IsNullOrEmpty(token)
    THEN Raise(UnauthorizedException([message |-> "Token is null or empty",
                                            process |-> "token_decode"]))
    ELSE IF ~IsValidJwtFormat(token)
    THEN Raise(UnauthorizedException([message |-> "Invalid JWT format",
                                            process |-> "token_decode"]))
    ELSE IF JwtDecode(lib) # "claims" THEN HandleDecodeError(JwtDecode(lib))
    ELSE IF lib.map_raises THEN HandleDecodeError("ValidationError")
    ELSE Return(UserOf(lib.claims))

NoLib == [kind |-> "none", claims |-> [c \in {} |-> ""], map_raises |-> FALSE,
          sig_valid |-> TRUE, exp |-> "absent"]

NotCalled == [kind |-> "none", value |-> <<>>, exc |-> NoException, decoded |-> FALSE]

\* no decode_token call is under way
DecInit ==
    /\ dec_token = <<>>
    /\ dec_lib = NoLib
    /\ dec_result = NotCalled

\* a decode_token call is about to run, on any token string
DecInputs ==
    /\ dec_token \in TokenStrings
    /\ dec_lib \in LibOutcomes
    /\ dec_result = NotCalled

\* bounds: the length of an issuer string in symbols, of a roles list, and the
\* number of clients in resource_access
MaxIssLen == 4
MaxRoles == 2
MaxClients == 2

\* An issuer string is a sequence of symbols: the text "/realms/" as one
\* symbol, a slash, any other character.
IssSyms == {"/realms/", "/", "a"}
IssValues ==
    { JsonStr(s) : s \in UNION { [1..n -> IssSyms] : n \in 0..MaxIssLen } }
    \cup {JsonInt(<<"7">>), Absent}
RealmValues == {JsonStr(<<"b">>), JsonStr(<<>>), JsonInt(<<"5">>), JsonNull, Absent}

\* payloads that differ in the iss and realm claims
RealmClaimSets ==
    { Present([c \in {"iss", "realm"} |-> IF c = "iss" THEN i ELSE r]) :
        i \in IssValues, r \in RealmValues }

RoleItems == {JsonStr(<<"a">>), JsonInt(<<"7">>), JsonInt(<<"0">>)}
RoleLists == { List(l) : l \in UNION { [1..n -> RoleItems] : n \in 0..MaxRoles } }
\* an access entry: not a dictionary, a dictionary without "roles", one whose
\* "roles" is not a list, one with a roles list
AccessValues ==
    {JsonStr(<<"a">>), Dict(JsonNull), Dict(JsonStr(<<"a">>))} \cup { Dict(l) : l \in RoleLists }
\* a client's entry of resource_access: as an access entry, with at most one role
ClientValues ==
    {JsonStr(<<"a">>), Dict(JsonNull), Dict(JsonStr(<<"a">>)), Dict(List(<<>>))}
    \cup { Dict(List(<<r>>)) : r \in RoleItems }
ResourceValues ==
    { Clients(v) : v \in UNION { [1..n -> ClientValues] : n \in 0..MaxClients } }
    \cup {JsonStr(<<"a">>), Absent}

\* payloads that differ in the realm_access and resource_access claims
RoleClaimSets ==
    { Present([c \in {"realm_access", "resource_access"} |->
                  IF c = "realm_access" THEN a ELSE r]) :
        a \in AccessValues \cup {Absent}, r \in ResourceValues }

\* three-part tokens, with and without the prefix
WellFormedTokens ==
    { <<"x", ".", "x", ".", "x">>, <<BEARER_PREFIX, "x", ".", "x", ".", "x">> }

\* a decode_token call is about to run, on a three-part token that decodes to
\* any of the payloads
ClaimInputs ==
    /\ dec_token \in WellFormedTokens
    /\ dec_lib \in { [kind |-> "claims", claims |-> c, map_raises |-> FALSE,
                      sig_valid |-> TRUE, exp |-> "future"] :
                       c \in RealmClaimSets \cup RoleClaimSets }
    /\ dec_result = NotCalled

\* the call of decode_token
CallDecodeToken ==
    /\ dec_lib # NoLib
    /\ dec_result = NotCalled
    /\ dec_result' = DecodeToken(dec_token, dec_lib)
    /\ UNCHANGED <<dec_token, dec_lib, provVars, cfgVars, httpVars, reqVars>>

----------------------------------------------------------------------------
(* The error types and the exception handlers *)

FixedStatusClasses ==
    {"BadRequestException", "UnauthorizedException", "ForbiddenException",
     "NotFoundException", "ConflictException", "UnprocessableEntityException",
     "InternalServerErrorException", "ServiceUnavailableException"}
ErrorClasses == FixedStatusClasses \cup {"BusinessException", "ValidationException"}

\* an exception that is not a BusinessException, with the message it was built with
OtherException(class, message) == [class |-> class, message |-> message]

\* class(**args) for an error type: a call that leaves out a required
\* argument or passes one the __init__ does not take raises TypeError
NewError(class, args) ==
    IF class \in FixedStatusClasses /\ "status_code" \in DOMAIN args
    THEN OtherException("TypeError", "unexpected keyword argument")
    ELSE IF class \notin FixedStatusClasses /\ "process" \notin DOMAIN args
    THEN OtherException("TypeError", "missing required argument")
    ELSE CASE class = "BadRequestException" -> BadRequestException(args)
           [] class = "UnauthorizedException" -> UnauthorizedException(args)
           [] class = "ForbiddenException" -> ForbiddenException(args)
           [] class = "NotFoundException" -> NotFoundException(args)
           [] class = "ConflictException" -> ConflictException(args)
           [] class = "UnprocessableEntityException" -> UnprocessableEntityException(args)
           [] class = "InternalServerErrorException" -> InternalServerErrorException(args)
           [] class = "ServiceUnavailableException" -> ServiceUnavailableException(args)
           [] class = "ValidationException" -> ValidationException(args)
           [] class = "BusinessException" -> BaseBusinessException(args)

\* HTTPException(status_code=..., detail=...)
HTTPException(args) ==
    [class |-> "HTTPException", status_code |-> args.status_code, detail |-> args.detail]

\* what "raise class(**args)" in a route handler raises
Throw(class, args) ==
    IF class \in ErrorClasses THEN NewError(class, args)
    ELSE IF class = "HTTPException" THEN HTTPException(args)
    ELSE OtherException(class, args.message)

\* type(exc).__mro__, up to Exception
Mro(class) ==
    CASE class = "BusinessException" -> <<"BusinessException", "Exception">>
      [] class \in ErrorClasses \ {"BusinessException"} ->
            <<class, "BusinessException", "Exception">>
      [] class = "ExpiredSignatureError" -> <<"ExpiredSignatureError", "JWTError", "Exception">>
      [] OTHER -> <<class, "Exception">>

\* the classes setup_exception_handlers registers a handler for
Registered == {"BusinessException", "ExpiredSignatureError", "HTTPException", "Exception"}

\* the registered class the framework handles the exception under: the first
\* class of its __mro__ that has a handler
HandledAs(exc) ==
    LET mro == Mro(exc.class)
        i == CHOOSE k \in 1..Len(mro) :
                 mro[k] \in Registered /\ \A j \in 1..(k - 1) : mro[j] \notin Registered
    IN  mro[i]

\* JSONResponse(status_code=..., content={"message", "process", "errors"})
JSONResponse(status_code, message, process, errors) ==
    [status_code |-> status_code,
     content |-> [message |-> message, process |-> process, errors |-> errors]]

\* a variant that reports no error list
BusinessExceptionHandler_NoErrors(exc) ==
    JSONResponse(exc.status_code, exc.message, exc.process, JsonNull)

\* business_exception_handler
BusinessExceptionHandler(exc) ==
    JSONResponse(exc.status_code, exc.message, exc.process, List(exc.errors))

\* expired_token_handler
ExpiredTokenHandler(exc) ==
    JSONResponse(401, "Token has expired.", "access_token", JsonNull)

\* the text searched for in the detail of a 403, as one symbol of a detail string
REQUIRED_TEXT == "is required to perform this action"

\* needle in text
Contains(text, needle) == \E i \in 1..Len(text) : text[i] = needle

\* a variant that rewrites the message whatever the status
HttpExceptionHandler_AnyStatus(exc) ==
    IF Contains(StrOf(exc.detail), REQUIRED_TEXT)
    THEN JSONResponse(exc.status_code, <<"You are not authorized to perform this action">>,
                      "general_error", JsonNull)
    ELSE JSONResponse(exc.status_code, StrOf(exc.detail), "general_error", JsonNull)

\* http_exception_handler (a message is a string as the sequence of its symbols)
HttpExceptionHandler(exc) ==
    IF exc.status_code = 403 /\ Contains(StrOf(exc.detail), REQUIRED_TEXT)
    THEN JSONResponse(exc.status_code, <<"You are not authorized to perform this action">>,
                      "general_error", JsonNull)
    ELSE JSONResponse(exc.status_code, StrOf(exc.detail), "general_error", JsonNull)

\* a variant that reports the exception's message
GenericExceptionHandler_Leaky(exc) ==
    JSONResponse(500, exc.message, "internal_error", JsonNull)

\* generic_exception_handler
GenericExceptionHandler(exc) ==
    JSONResponse(500, "An unexpected error occurred", "internal_error", JsonNull)

\* the response to an exception raised by a route handler
ExceptionHandlers(exc) ==
    CASE HandledAs(exc) = "BusinessException" -> BusinessExceptionHandler(exc)
      [] HandledAs(exc) = "ExpiredSignatureError" -> ExpiredTokenHandler(exc)
      [] HandledAs(exc) = "HTTPException" -> HttpExceptionHandler(exc)
      [] HandledAs(exc) = "Exception" -> GenericExceptionHandler(exc)

\* keyword arguments of an error type's constructor: a message, and any of
\* process, status_code and errors
ErrorArgs ==
    { [n \in {"message"} \cup opt |->
          CASE n = "message" -> m
            [] n = "process" -> "p"
            [] n = "status_code" -> 418
            [] n = "errors" -> e] :
        opt \in SUBSET {"process", "status_code", "errors"},
        m \in {"m1", "m2"}, e \in {<<>>, <<"e1">>} }

\* bound: the length of the detail of an HTTPException, in symbols
MaxDetailLen == 2

\* A detail is a string, or an object with that string form; the string is a
\* sequence of symbols: the searched text, the same in capitals, any other text.
DetailSyms == {REQUIRED_TEXT, "IS REQUIRED TO PERFORM THIS ACTION", "x"}
Details ==
    { Scalar(ty, t) : ty \in {"str", "dict"},
                      t \in UNION { [1..n -> DetailSyms] : n \in 0..MaxDetailLen } }
HttpArgs == { [status_code |-> sc, detail |-> d] : sc \in {403, 404}, d \in Details }

\* what a route handler may raise
AdapterInputs ==
    { [class |-> c, args |-> a] : c \in ErrorClasses, a \in ErrorArgs }
    \cup { [class |-> "HTTPException", args |-> a] : a \in HttpArgs }
    \cup { [class |-> c, args |-> [message |-> m]] :
             c \in {"ExpiredSignatureError", "JWTError", "ValueError"}, m \in {"m1", "m2"} }

NoInput == [class |-> "none", args |-> [message |-> ""]]
NoRaised == OtherException("none", "")
NoResponse == JSONResponse(0, "", "", JsonNull)

\* a route handler is about to raise
RouteInputs ==
    /\ adp_input \in AdapterInputs
    /\ adp_exc = NoRaised
    /\ adp_response = NoResponse
    /\ adp_dict = <<>>

\* the route handler raises
RaiseError ==
    /\ adp_input # NoInput
    /\ adp_exc = NoRaised
    /\ adp_exc' = Throw(adp_input.class, adp_input.args)
    /\ UNCHANGED <<adp_input, adp_response, pag_input, pag_result, adp_dict,
                   provVars, cfgVars, decVars, reqVars>>

\* a variant that reports the status code too
ToDict_WithStatus(exc) ==
    [message |-> exc.message, process |-> exc.process, errors |-> exc.errors,
     status_code |-> exc.status_code]

\* BusinessException.to_dict
ToDict(exc) == [message |-> exc.message, process |-> exc.process, errors |-> exc.errors]

\* to_dict() is called on the error the route handler raised
CallToDict ==
    /\ adp_exc.class \in ErrorClasses
    /\ adp_dict = <<>>
    /\ adp_dict' = <<ToDict(adp_exc)>>
    /\ UNCHANGED <<adp_input, adp_exc, adp_response, pag_input, pag_result,
                   provVars, cfgVars, decVars, reqVars>>

\* the framework answers with the handler registered for the exception
HandleError ==
    /\ adp_exc # NoRaised
    /\ adp_response = NoResponse
    /\ adp_response' = ExceptionHandlers(adp_exc)
    /\ UNCHANGED <<adp_input, adp_exc, pag_input, pag_result, adp_dict,
                   provVars, cfgVars, decVars, reqVars>>

----------------------------------------------------------------------------
(* ApiResponseDto: the paginated constructors *)

\* bounds: the largest total_elements and the largest page size
MaxTotal == 23
MaxSize == 10

\* a Pagination object; an Optional[int] field is <<>> for None, <<n>> for n
Pagination(page, size, total_elements, total_pages) ==
    [page |-> page, size |-> size, total_elements |-> total_elements,
     total_pages |-> total_pages]

\* ApiResponseDto(data=..., pagination=...)
ApiResponseDto(data, pagination) == [data |-> data, pagination |-> pagination]

\* ok_with_pagination
OkWithPagination(data, pagination) == ApiResponseDto(data, pagination)

\* a variant that rounds down
TotalPages_Floor(total_elements, size) == total_elements \div size

\* (total_elements + pagination.size - 1) // pagination.size
TotalPages(total_elements, size) == (total_elements + size - 1) \div size

\* a variant that sets total_pages from a size that is not positive too
OkFromPage_NoSizeCheck(page_result, pagination, total_elements) ==
    IF total_elements # <<>>
    THEN ApiResponseDto(page_result,
             [pagination EXCEPT !.total_elements = total_elements,
                                !.total_pages = <<0>>])
    ELSE ApiResponseDto(page_result, pagination)

\* ok_from_page (total_elements: <<>> for None)
OkFromPage(page_result, pagination, total_elements) ==
    IF total_elements # <<>>
    THEN IF pagination.size > 0
         THEN ApiResponseDto(page_result,
                  [pagination EXCEPT !.total_elements = total_elements,
                                     !.total_pages =
                                         <<TotalPages(total_elements[1], pagination.size)>>])
         ELSE ApiResponseDto(page_result,
                  [pagination EXCEPT !.total_elements = total_elements])
    ELSE ApiResponseDto(page_result, pagination)

\* Pagination objects a caller may pass: the constructor accepts a size above
\* 0 only, but the fields can be assigned afterwards (frozen = False) and an
\* assignment is not validated, so a size of 0 or below is possible
Paginations ==
    { Pagination(pg, sz, te, tp) :
        pg \in {0, 1}, sz \in (-1)..MaxSize, te \in {<<>>, <<5>>}, tp \in {<<>>, <<7>>} }

PageInputs ==
    { [op |-> "ok_from_page", data |-> d, pagination |-> p, total_elements |-> te] :
        d \in {<<>>, <<"item">>}, p \in Paginations,
        te \in {<<>>} \cup { <<n>> : n \in (-1)..MaxTotal } }
    \cup { [op |-> "ok_with_pagination", data |-> d, pagination |-> p, total_elements |-> <<>>] :
             d \in {<<>>, <<"item">>}, p \in Paginations }

NoPageCall == [op |-> "none", data |-> <<>>, pagination |-> Pagination(0, 1, <<>>, <<>>),
               total_elements |-> <<>>]

\* one of the paginated constructors is about to be called
PageCalls ==
    /\ pag_input \in PageInputs
    /\ pag_result = <<>>

CallOkFromPage ==
    /\ pag_input.op = "ok_from_page"
    /\ pag_result = <<>>
    /\ pag_result' = <<OkFromPage(pag_input.data, pag_input.pagination,
                                  pag_input.total_elements)>>
    /\ UNCHANGED <<pag_input, adp_input, adp_exc, adp_response, adp_dict,
                   provVars, cfgVars, decVars, reqVars>>

CallOkWithPagination ==
    /\ pag_input.op = "ok_with_pagination"
    /\ pag_result = <<>>
    /\ pag_result' = <<OkWithPagination(pag_input.data, pag_input.pagination)>>
    /\ UNCHANGED <<pag_input, adp_input, adp_exc, adp_response, adp_dict,
                   provVars, cfgVars, decVars, reqVars>>

\* no route handler has raised and no paginated constructor is being called
HttpInit ==
    /\ adp_input = NoInput
    /\ adp_exc = NoRaised
    /\ adp_response = NoResponse
    /\ pag_input = NoPageCall
    /\ pag_result = <<>>
    /\ adp_dict = <<>>

----------------------------------------------------------------------------
(* Callers of get_admin_access_token on their own threads, and the token
   request as the endpoint receives it *)

\* the two threads that share one provider
Callers == {"A", "B"}

\* no answer received
NoAnswer == [kind |-> "none", access_token |-> None, has_expires_in |-> FALSE,
             expires_in |-> 0]

\* a thread outside the call: at is its place in get_admin_access_token, back
\* the place _refresh_token returns to, resp the token_data it holds, exc the
\* exception it raised, ret what the call returned (<<>>: nothing yet),
\* saw_expired whether its expiry test found the token expired, sent the
\* token requests it posted
IdleThread == [at |-> "idle", back |-> "idle", resp |-> NoAnswer, exc |-> "none",
               ret |-> <<>>, saw_expired |-> FALSE, sent |-> 0]

\* no token request built; data is the form a request carries
NoRequest == [kind |-> "none", data |-> TokenRequestData(NoProvider.config)]

ReqInit ==
    /\ thr = [c \in Callers |-> IdleThread]
    /\ cred_request = NoRequest

----------------------------------------------------------------------------
(* The provider as a state machine *)

Prov == [config |-> config, access_token |-> access_token,
         token_expires_at |-> token_expires_at, last_init_time |-> last_init_time,
         client |-> client]

\* a call: its name and time, the provider before it, the exception it raised
\* ("none": it returned), the token requests it sent, and what it returned (a
\* string as the sequence of its parts, a client as its handle)
Call(op, pre, o, ret, rc) ==
    [op |-> op, t |-> now, pre |-> pre, exc |-> o.exc, reqs |-> o.reqs,
     ret |-> ret, ret_client |-> rc]

NoCall == [op |-> "none", t |-> 0, pre |-> NoProvider,
           exc |-> "none", reqs |-> <<>>, ret |-> <<>>, ret_client |-> NoClient]

\* the provider's fields, the client bookkeeping and the history after outcome o
Record(op, o, ret, rc) ==
    /\ config' = o.p.config
    /\ access_token' = o.p.access_token
    /\ token_expires_at' = o.p.token_expires_at
    /\ last_init_time' = o.p.last_init_time
    /\ client' = o.p.client
    /\ nClients' = IF o.p.client \notin {client, NoClient} THEN nClients + 1 ELSE nClients
    /\ openClients' = IF o.p.client \notin {client, NoClient}
                      THEN openClients \cup {o.p.client} ELSE openClients
    /\ last' = Call(op, Prov, o, ret, rc)

ProvInit ==
    /\ now = 0
    /\ exists = FALSE
    /\ config = NoProvider.config
    /\ access_token = None
    /\ token_expires_at = 0
    /\ last_init_time = 0
    /\ client = NoClient
    /\ nClients = 0
    /\ openClients = {}
    /\ last = NoCall

Init == ProvInit /\ CfgInit /\ DecInit /\ HttpInit /\ ReqInit

\* the clock moves; it is read only by a provider that exists, and it starts at
\* the time of the first constructor call
Tick ==
    /\ exists
    /\ \E t \in TimePoints :
         /\ t > now
         /\ \A u \in TimePoints : u > now => t <= u
         /\ now' = t
    /\ UNCHANGED <<exists, config, access_token, token_expires_at, last_init_time,
                   client, nClients, openClients, last>>
    /\ UNCHANGED <<cfgVars, decVars, httpVars, reqVars>>

\* KeycloakAuthProvider(config): __init__ sets the fields and calls _initialize();
\* when that raises, no object is created (the client it opened stays open)
Construct ==
    /\ ~exists
    /\ nClients < MaxConstructs
    /\ \E cfg \in ProviderConfigs, resp \in Responses :
         LET o == Initialize(FreshProvider(cfg), now, nClients + 1, resp)
         IN  IF o.exc = "none"
             THEN /\ exists' = TRUE
                  /\ Record("construct", o, <<>>, NoClient)
             ELSE /\ exists' = FALSE
                  /\ nClients' = nClients + 1
                  /\ openClients' = openClients \cup {nClients + 1}
                  /\ last' = Call("construct", NoProvider, o, <<>>, NoClient)
                  /\ UNCHANGED <<config, access_token, token_expires_at,
                                 last_init_time, client>>
    /\ UNCHANGED <<now, cfgVars, decVars, httpVars, reqVars>>

\* the outcomes of get_admin_access_token for every answer of the identity
\* provider to the requests the call sends (the second answer is drawn only
\* when the call sends a second request)
TokenOutcomes ==
    { GetAdminAccessToken(Prov, now, nClients + 1, r, r) : r \in Responses }
    \cup { GetAdminAccessToken(Prov, now, nClients + 1, r1, r2) :
             r1 \in { r \in Responses :
                        Len(GetAdminAccessToken(Prov, now, nClients + 1, r, r).reqs) = 2 },
             r2 \in Responses }

CallGetAdminAccessToken ==
    /\ exists
    /\ \E o \in TokenOutcomes :
         Record("get_admin_access_token", o, TokenOf(o), NoClient)
    /\ UNCHANGED <<now, exists, cfgVars, decVars, httpVars, reqVars>>

\* get_admin_access_token_string: "Bearer " + get_admin_access_token()
CallGetAdminAccessTokenString ==
    /\ exists
    /\ \E o \in TokenOutcomes :
         Record("get_admin_access_token_string", o, BearerStringOf(o), NoClient)
    /\ UNCHANGED <<now, exists, cfgVars, decVars, httpVars, reqVars>>

CallGetClient ==
    /\ exists
    /\ \E r1 \in Responses :
         LET o == GetClient(Prov, now, nClients + 1, r1)
         IN  Record("get_client", o, <<>>,
                    IF o.exc = "none" THEN o.p.client ELSE NoClient)
    /\ UNCHANGED <<now, exists, cfgVars, decVars, httpVars, reqVars>>

CallClose ==
    /\ exists
    /\ LET q == Close(Prov)
       IN  /\ access_token' = q.access_token
           /\ token_expires_at' = q.token_expires_at
           /\ last_init_time' = q.last_init_time
           /\ client' = q.client
           /\ openClients' = IF q.client = NoClient THEN openClients \ {client}
                             ELSE openClients
           /\ last' = Call("close", Prov, Outcome(q, "none", <<>>), <<>>, NoClient)
    /\ UNCHANGED <<now, exists, config, nClients, cfgVars, decVars, httpVars, reqVars>>

Next ==
    \/ Tick
    \/ Construct
    \/ CallGetAdminAccessToken
    \/ CallGetAdminAccessTokenString
    \/ CallGetClient
    \/ CallClose

Spec == Init /\ [][Next]_vars

----------------------------------------------------------------------------
(* Properties of the provider *)

TokenAccessors == {"get_admin_access_token", "get_admin_access_token_string"}
Accessors == TokenAccessors \cup {"get_client"}

\* the last call was an accessor call on a provider whose client was None
AfterClose == last.op \in Accessors /\ last.pre.client = NoClient
\* the last call was an accessor call on a provider that was not closed
OnOpen == last.op \in Accessors /\ last.pre.client # NoClient
\* more than 900 s had passed since the last (re)initialization
WasDue == last.t - last.pre.last_init_time > 900
\* the cached token's expiry had passed, or no token was cached
WasExpired == last.t >= last.pre.token_expires_at \/ ~Truthy(last.pre.access_token)
\* the answer to the last request of the call
LastResp == last.reqs[Len(last.reqs)]
\* a 2xx answer that carries a token
Good(resp) == resp.kind = "2xx" /\ Truthy(resp.access_token)
\* the call replaced the client by a newly created one and stamped the time
Reinitialized ==
    /\ client # last.pre.client
    /\ client = nClients
    /\ client \in openClients
    /\ last_init_time = last.t
    /\ Len(last.reqs) >= 1

\* C1 as stated: an accessor call on a closed provider opens a new client and
\* fetches a token, and returns normally when the identity provider answers.
C1_ReinitAfterClose ==
    AfterClose =>
        /\ client # NoClient
        /\ Len(last.reqs) >= 1
        /\ ((\A i \in 1..Len(last.reqs) : Good(last.reqs[i])) => last.exc = "none")

\* C1 amended: an accessor call on a closed provider raises RuntimeError; it
\* opens no client, sends no token request and leaves every field as it was.
C1_ClosedStaysClosed ==
    AfterClose =>
        /\ last.exc = "RuntimeError"
        /\ last.reqs = <<>>
        /\ Prov = last.pre
        /\ client = NoClient

C1_Witness == exists /\ AfterClose /\ last.op = "get_client"

\* a (re)initialization whose token fetch failed
InitFailedAtFetch ==
    /\ last.op = "construct" \/ (OnOpen /\ WasDue)
    /\ last.reqs # <<>>
    /\ ~Good(last.reqs[1])

\* C2: an initialization that fails at its token fetch raises RuntimeError and
\* leaves the client handle, the last-init timestamp, the cached token and the
\* cached expiry as they were before the attempt.
C2_NoPartialState ==
    InitFailedAtFetch => last.exc = "RuntimeError" /\ Prov = last.pre

\* C3: after a successful fetch at time T with expires_in = E (300 when absent)
\* the cached expiry is T + E - 60 and the cached token is the fetched one; a
\* call that sends no request leaves both; and a token accessor called on a
\* non-closed provider at or after the cached expiry sends a token request and,
\* when it returns, returns the token of its last request.
C3_ExpiryAndRefresh ==
    /\ (last.reqs # <<>> /\ Good(LastResp)) =>
          /\ access_token = LastResp.access_token
          /\ token_expires_at =
                last.t + (IF LastResp.has_expires_in THEN LastResp.expires_in ELSE 300) - 60
    /\ last.reqs = <<>> =>
          /\ access_token = last.pre.access_token
          /\ token_expires_at = last.pre.token_expires_at
    /\ (OnOpen /\ last.op \in TokenAccessors /\ last.t >= last.pre.token_expires_at) =>
          /\ Len(last.reqs) >= 1
          /\ last.exc = "none" =>
                /\ Good(LastResp)
                /\ last.op = "get_admin_access_token" =>
                      last.ret = <<LastResp.access_token>>
                /\ last.op = "get_admin_access_token_string" =>
                      last.ret = <<"Bearer ", LastResp.access_token>>

\* the boundary: a call at exactly the cached expiry, no reinitialization due
C3_Witness ==
    /\ OnOpen /\ last.op = "get_admin_access_token"
    /\ Truthy(last.pre.access_token)
    /\ last.t = last.pre.token_expires_at
    /\ last.t = last.pre.last_init_time + 60
    /\ ~WasDue
    /\ last.exc = "none"
    /\ last.ret # <<last.pre.access_token>>

\* C4 as stated: no accessor call made before the cached token's expiry sends a
\* token request.
C4_NoFetchBeforeExpiry ==
    (last.op \in Accessors /\ Truthy(last.pre.access_token)
        /\ last.t < last.pre.token_expires_at)
    => last.reqs = <<>>

\* C4 amended: no accessor call made before the cached token's expiry and no
\* more than 900 s after the last initialization sends a token request.
C4_NoFetchBeforeExpiryUnlessDue ==
    (last.op \in Accessors /\ Truthy(last.pre.access_token)
        /\ last.t < last.pre.token_expires_at /\ ~WasDue)
    => last.reqs = <<>> /\ access_token = last.pre.access_token

C4_Witness ==
    /\ OnOpen /\ last.op = "get_admin_access_token"
    /\ Truthy(last.pre.access_token)
    /\ last.t > last.pre.last_init_time
    /\ last.t + 60 = last.pre.token_expires_at
    /\ ~WasDue
    /\ last.exc = "none" /\ last.reqs = <<>>

\* C5 as stated: every accessor, get_client included, sends a token request
\* when the cached token's expiry has passed or no token is cached.
C5_EveryAccessorRefreshes ==
    (OnOpen /\ WasExpired) => Len(last.reqs) >= 1

\* C5 amended: every accessor applies the 15-minute check; the token accessors
\* also apply the expiry check; get_client does not: when no reinitialization
\* is due it returns the client it had and leaves every field as it was.
C5_ChecksPerAccessor ==
    OnOpen =>
        /\ WasDue => Reinitialized
        /\ (last.op \in TokenAccessors /\ WasExpired) => Len(last.reqs) >= 1
        /\ (last.op = "get_client" /\ ~WasDue) =>
              /\ last.reqs = <<>>
              /\ last.exc = "none"
              /\ Prov = last.pre
              /\ last.ret_client = last.pre.client

C5_Witness ==
    /\ OnOpen /\ last.op = "get_client"
    /\ last.t >= last.pre.token_expires_at
    /\ ~WasDue
    /\ last.exc = "none" /\ last.reqs = <<>>

\* C6: an accessor call at time t on a non-closed provider replaces the client
\* by a newly created one, sends a token request and sets the last-init
\* timestamp to t if and only if t - last_init > 900, whether or not the cached
\* token is unexpired; when it then returns, the cached token is the fetched one.
C6_ReinitIffDue ==
    OnOpen =>
        /\ WasDue =>
              /\ Reinitialized
              /\ last.exc = "none" => Good(LastResp) /\ access_token = LastResp.access_token
        /\ ~WasDue =>
              /\ client = last.pre.client
              /\ last_init_time = last.pre.last_init_time

\* a reinitialization while the cached token was unexpired
C6_Witness ==
    /\ OnOpen /\ WasDue
    /\ Truthy(last.pre.access_token)
    /\ last.t < last.pre.token_expires_at
    /\ last.exc = "none"
    /\ Reinitialized

\* C7: a token request that fails with a non-2xx answer or a network failure
\* is the last request of its call, and the call raises RuntimeError.
C7_NoRetry ==
    \A i \in 1..Len(last.reqs) :
        last.reqs[i].kind = "http_error" =>
            i = Len(last.reqs) /\ last.exc = "RuntimeError"

\* the refresh after a successful reinitialization fails
C7_Witness ==
    /\ last.op \in TokenAccessors
    /\ Len(last.reqs) = 2
    /\ last.reqs[2].kind = "http_error"
    /\ last.exc = "RuntimeError"

----------------------------------------------------------------------------
(* Properties of the configuration singletons, called one at a time *)

CfgNext ==
    \/ SetEnv
    \/ CallGetKeycloakConfig
    \/ CallGetIdp

SpecConfig == Init /\ [][CfgNext]_vars

\* C8: called one at a time from unset globals, get_keycloak_config builds one
\* KeycloakConfig, from the environment of the first call, and every call
\* returns that object; get_idp builds one identity-provider client, from the
\* seven fields of that configuration, and every call returns that client.
C8_Singletons ==
    /\ nConfigs <= 1 /\ nStores <= 1 /\ nIdps <= 1
    /\ cfgReturned \subseteq {keycloak_config}
    /\ cfgReturned # {} => keycloak_config.id = 1
    /\ keycloak_config.id # 0 =>
          \A f \in Fields : keycloak_config.contents[f] = envAtBuild[EnvVarOf(f)]
    /\ idpReturned \subseteq {idp_instance}
    /\ idpReturned # {} => idp_instance.id = 1
    /\ idp_instance.id # 0 =>
          /\ keycloak_config.id = 1
          /\ DOMAIN idp_instance.contents = Fields
          /\ \A f \in Fields : idp_instance.contents[f] = keycloak_config.contents[f]

\* both getters have returned, after the environment changed under them
C8_Witness ==
    /\ cfgReturned # {} /\ idpReturned # {}
    /\ nEnvChanges = MaxEnvChanges
    /\ \E f \in Fields : keycloak_config.contents[f] # environ[EnvVarOf(f)]

----------------------------------------------------------------------------
(* Properties of the configuration singleton under concurrent callers *)

ConcNext ==
    \E t \in Threads :
        \/ T_Call(t)
        \/ T_Test(t)
        \/ T_Build(t)
        \/ T_Store(t)
        \/ T_Return(t)

SpecConfigConc == Init /\ [][ConcNext]_vars

\* C9: in every interleaving of concurrent get_keycloak_config calls the module
\* global is assigned at most once and all callers receive the same object.
C9_WriteOnce ==
    /\ nStores <= 1
    /\ Cardinality(cfgReturned) <= 1

----------------------------------------------------------------------------
(* Properties of decode_token *)

DecNext == CallDecodeToken

InitDecoder == ProvInit /\ CfgInit /\ DecInputs /\ HttpInit /\ ReqInit

SpecDecoder == InitDecoder /\ [][DecNext]_vars

\* the token, after one leading "Bearer " is removed, has exactly two dots
ThreeParts(token) ==
    LET body == IF token # <<>> /\ token[1] = "Bearer " THEN Tail(token) ELSE token
    IN  Cardinality({ i \in 1..Len(body) : body[i] = "." }) = 2

\* the call could not produce a user: a blank token, a wrong segment count,
\* or an error raised while decoding (a payload the library cannot parse, an
\* exp claim in the past) or mapping
DecodeFailed ==
    \/ \A i \in 1..Len(dec_token) : dec_token[i] = " "
    \/ ~ThreeParts(dec_token)
    \/ dec_lib.kind # "claims"
    \/ dec_lib.exp = "past"
    \/ dec_lib.map_raises

Blank(token) == \A i \in 1..Len(token) : token[i] = " "

\* C11: a blank token is rejected with "Token is null or empty"; a token that
\* is not blank and does not have three segments after one leading "Bearer "
\* is removed is rejected with "Invalid JWT format"; both are unauthorized
\* errors raised before jwt.decode is called, which happens only for a
\* three-part token that is not blank.
C11_ValidationOrder ==
    dec_result.kind # "none" =>
        /\ Blank(dec_token) =>
              /\ dec_result.kind = "raise"
              /\ dec_result.exc.class = "UnauthorizedException"
              /\ dec_result.exc.message = "Token is null or empty"
        /\ ~Blank(dec_token) /\ ~ThreeParts(dec_token) =>
              /\ dec_result.kind = "raise"
              /\ dec_result.exc.class = "UnauthorizedException"
              /\ dec_result.exc.status_code = 401
              /\ dec_result.exc.message = "Invalid JWT format"
        /\ dec_result.decoded <=> ~Blank(dec_token) /\ ThreeParts(dec_token)

\* a bearer-prefixed token of two segments was rejected for its format
C11_Witness ==
    /\ dec_token = <<"Bearer ", "x", ".", "x">>
    /\ dec_result.kind = "raise"
    /\ dec_result.exc.message = "Invalid JWT format"
    /\ ~dec_result.decoded

\* C12: for a three-part token whose payload parses and maps, decode_token
\* returns the user built from the claims, whether or not the signature
\* segment is valid and wherever the exp claim lies.
C12_NoVerification ==
    /\ dec_result.kind # "none"
    /\ ~Blank(dec_token) /\ ThreeParts(dec_token)
    /\ dec_lib.kind = "claims" /\ ~dec_lib.map_raises
    => /\ dec_result.kind = "return"
       /\ dec_result.value = <<UserOf(dec_lib.claims)>>

----------------------------------------------------------------------------
(* Properties of the mapping of claims to the user *)

InitDecoderClaims == ProvInit /\ CfgInit /\ ClaimInputs /\ HttpInit /\ ReqInit

SpecDecoderClaims == InitDecoderClaims /\ [][DecNext]_vars

\* the text s holds "/realms/", and the text between its first "/realms/" and
\* the next slash (or the end) is seg
FollowsRealms(s, seg) ==
    \E i \in 1..Len(s) :
        /\ s[i] = "/realms/"
        /\ \A k \in 1..(i - 1) : s[k] # "/realms/"
        /\ i + Len(seg) <= Len(s)
        /\ \A k \in 1..Len(seg) : s[i + k] = seg[k] /\ seg[k] \notin {"/", "/realms/"}
        /\ i + Len(seg) = Len(s) \/ s[i + Len(seg) + 1] \in {"/", "/realms/"}

\* the non-empty segments that follow "/realms/" in the iss claim, when it is a string
IssRealms(claims) ==
    IF "iss" \in DOMAIN claims /\ claims["iss"].type = "str"
    THEN { seg \in { SubSeq(claims["iss"].text, a, b) :
                       a \in 1..Len(claims["iss"].text), b \in 1..Len(claims["iss"].text) } :
             seg # <<>> /\ FollowsRealms(claims["iss"].text, seg) }
    ELSE {}

\* C13: the realm of the decoded user is the segment that follows "/realms/"
\* in iss when iss is a string in which "/realms/" is followed by a non-empty
\* segment, whatever the realm claim; otherwise the string form of the realm
\* claim; None when that claim is absent (or null) too.
C13_Realm ==
    dec_result.kind # "none" =>
        /\ dec_result.kind = "return"
        /\ LET claims == dec_lib.claims
               realm == dec_result.value[1].realm
           IN  IF IssRealms(claims) # {} THEN realm \in { <<seg>> : seg \in IssRealms(claims) }
               ELSE IF "realm" \in DOMAIN claims /\ claims["realm"].type # "null"
               THEN realm = <<claims["realm"].text>>
               ELSE realm = <<>>

\* the issuer names a realm and a realm claim with another value is present
C13_Witness ==
    /\ dec_result.kind = "return"
    /\ DOMAIN dec_lib.claims = {"iss", "realm"}
    /\ dec_lib.claims["iss"].text = <<"a", "/realms/", "a", "/">>
    /\ dec_lib.claims["realm"].text = <<"b">>
    /\ dec_result.value[1].realm = << <<"a">> >>

\* the roles array of an access entry (empty when the entry is not a
\* dictionary with a list under "roles")
RolesArray(access) ==
    IF access.type = "dict" /\ access.roles.type = "list" THEN access.roles.items ELSE <<>>

\* the roles arrays of the payload: that of realm_access, then those of the
\* clients of resource_access
RolesArrays(claims) ==
    (IF "realm_access" \in DOMAIN claims THEN <<RolesArray(claims["realm_access"])>> ELSE <<>>)
    \o (IF "resource_access" \in DOMAIN claims /\ claims["resource_access"].type = "dict"
        THEN [k \in 1..Len(claims["resource_access"].values) |->
                 RolesArray(claims["resource_access"].values[k])]
        ELSE <<>>)

\* how many elements of the arrays that satisfy Keep have the string form t
Occurrences(arrays, t, Keep(_)) ==
    Cardinality(UNION { { <<k, i>> : i \in { j \in 1..Len(arrays[k]) :
                                               arrays[k][j].text = t /\ Keep(arrays[k][j]) } } :
                        k \in 1..Len(arrays) })

\* the string forms the payload's role elements and the user's roles have
RoleTexts == { r.text : r \in RoleItems } \cup { dec_result.value[1].roles[i] :
                                                   i \in 1..Len(dec_result.value[1].roles) }

\* any element
AnyItem(v) == TRUE
\* the element is not an empty string and not the integer 0
NotFalsy(v) == ~(v.type = "str" /\ v.text = <<>>) /\ ~(v.type = "int" /\ v.text = <<"0">>)

\* C14 as stated: the user's roles hold the string form of every element of
\* realm_access.roles and of every client's roles, as often as it occurs there.
C14_EveryElement ==
    dec_result.kind # "none" =>
        /\ dec_result.kind = "return"
        /\ \A t \in RoleTexts :
              Cardinality({ i \in 1..Len(dec_result.value[1].roles) :
                              dec_result.value[1].roles[i] = t })
              = Occurrences(RolesArrays(dec_lib.claims), t, AnyItem)

\* C14: the user's roles hold the string form of every element of
\* realm_access.roles and of every client's roles that is not falsy (not an
\* empty string, not 0), as often as it occurs there; without realm_access and
\* resource_access the list is empty, and the call returns.
C14_EveryTruthyElement ==
    dec_result.kind # "none" =>
        /\ dec_result.kind = "return"
        /\ \A t \in RoleTexts :
              Cardinality({ i \in 1..Len(dec_result.value[1].roles) :
                              dec_result.value[1].roles[i] = t })
              = Occurrences(RolesArrays(dec_lib.claims), t, NotFalsy)
        /\ DOMAIN dec_lib.claims = {} => dec_result.value[1].roles = <<>>

\* a role held by the realm and by a client appears twice, an integer role as
\* its string form
C14_Witness ==
    /\ dec_result.kind = "return"
    /\ "realm_access" \in DOMAIN dec_lib.claims
    /\ "resource_access" \in DOMAIN dec_lib.claims
    /\ dec_lib.claims["realm_access"] = Dict(List(<<JsonStr(<<"a">>), JsonInt(<<"7">>)>>))
    /\ dec_lib.claims["resource_access"].type = "dict"
    /\ dec_lib.claims["resource_access"].values
          = <<Dict(List(<<JsonStr(<<"a">>)>>)), Dict(List(<<JsonStr(<<"a">>)>>))>>
    /\ dec_result.value[1].roles = << <<"a">>, <<"7">>, <<"a">>, <<"a">> >>

----------------------------------------------------------------------------
(* Properties of the error types and the exception handlers *)

AdapterNext ==
    \/ RaiseError
    \/ HandleError
    \/ CallToDict

InitAdapter ==
    /\ ProvInit /\ CfgInit /\ DecInit /\ ReqInit
    /\ RouteInputs
    /\ pag_input = NoPageCall /\ pag_result = <<>>

SpecAdapter == InitAdapter /\ [][AdapterNext]_vars

\* the handlers have answered
Answered == adp_response.status_code # 0
\* the exception raised is a BusinessException or of a subtype
RaisedBusinessError ==
    adp_exc.class \in {"BusinessException", "ValidationException", "BadRequestException",
                       "UnauthorizedException", "ForbiddenException", "NotFoundException",
                       "ConflictException", "UnprocessableEntityException",
                       "InternalServerErrorException", "ServiceUnavailableException"}

\* C15: a BusinessException of any type is answered with its own status code
\* and the body {message, process, errors} of its own values, the error list
\* being a list; the generic payload of the 500 handler is never its answer.
C15_BusinessErrorResponse ==
    Answered /\ RaisedBusinessError =>
        /\ adp_response.status_code = adp_exc.status_code
        /\ DOMAIN adp_response.content = {"message", "process", "errors"}
        /\ adp_response.content.message = adp_exc.message
        /\ adp_response.content.process = adp_exc.process
        /\ adp_response.content.errors.type = "list"
        /\ adp_response.content.errors.items = adp_exc.errors
        /\ adp_response.content.process # "internal_error"

\* an internal-server-error exception with an error list was answered with its own body
C15_Witness ==
    /\ Answered
    /\ adp_exc.class = "InternalServerErrorException"
    /\ adp_response.status_code = 500
    /\ adp_response.content.message = "m1"
    /\ adp_response.content.errors.items = <<"e1">>

\* the detail's string form holds the searched text
DetailAsksForRole ==
    \E i \in 1..Len(adp_exc.detail.text) :
        adp_exc.detail.text[i] = "is required to perform this action"

\* C16: an HTTPException is answered with its own status code, process
\* "general_error" and errors null; the message is the string form of the
\* detail, except that it is "You are not authorized to perform this action"
\* if and only if the status is 403 and the string form of the detail holds
\* "is required to perform this action".
C16_HttpExceptionResponse ==
    Answered /\ adp_exc.class = "HTTPException" =>
        /\ adp_response.status_code = adp_exc.status_code
        /\ adp_response.content.process = "general_error"
        /\ adp_response.content.errors.type = "null"
        /\ IF adp_exc.status_code = 403 /\ DetailAsksForRole
           THEN adp_response.content.message
                    = <<"You are not authorized to perform this action">>
           ELSE adp_response.content.message = adp_exc.detail.text

\* a 403 whose detail names the missing role was answered with the fixed message
C16_Witness ==
    /\ Answered
    /\ adp_exc.class = "HTTPException"
    /\ adp_exc.status_code = 403
    /\ adp_exc.detail.text = <<"x", "is required to perform this action">>
    /\ adp_response.status_code = 403
    /\ adp_response.content.message = <<"You are not authorized to perform this action">>

\* the exceptions answered by the handler registered for Exception
Unexpected == { i \in AdapterInputs : i.class \in {"JWTError", "ValueError"} }
\* the expired-signature exceptions
Expired == { i \in AdapterInputs : i.class = "ExpiredSignatureError" }

\* C17: an ExpiredSignatureError is answered with (401, "Token has expired.",
\* "access_token", null) and an exception that is not a BusinessException, an
\* ExpiredSignatureError or an HTTPException with (500, "An unexpected error
\* occurred", "internal_error", null); the answer is that of every other
\* exception of the same kind, whatever its type, message or arguments.
C17_DetailSuppressed ==
    Answered =>
        /\ adp_exc.class = "ExpiredSignatureError" =>
              /\ adp_response = [status_code |-> 401,
                                 content |-> [message |-> "Token has expired.",
                                              process |-> "access_token",
                                              errors |-> JsonNull]]
              /\ \A i \in Expired :
                    ExceptionHandlers(Throw(i.class, i.args)) = adp_response
        /\ adp_exc.class \in {"JWTError", "ValueError", "TypeError"} =>
              /\ adp_response = [status_code |-> 500,
                                 content |-> [message |-> "An unexpected error occurred",
                                              process |-> "internal_error",
                                              errors |-> JsonNull]]
              /\ \A i \in Unexpected :
                    ExceptionHandlers(Throw(i.class, i.args)) = adp_response

\* a JWTError that is not an expired signature was answered by the generic handler
C17_Witness ==
    /\ Answered
    /\ adp_exc.class = "JWTError"
    /\ adp_exc.message = "m2"
    /\ adp_response.status_code = 500

\* the documented status code and default process label of each error type
\* (no default label for the base and the validation type)
Documented ==
    [BadRequestException |-> <<400, "Processing Client Request">>,
     UnauthorizedException |-> <<401, "Authentication">>,
     ForbiddenException |-> <<403, "Authorization">>,
     NotFoundException |-> <<404, "Resource Lookup">>,
     ConflictException |-> <<409, "Resource Conflict">>,
     UnprocessableEntityException |-> <<422, "Data Validation">>,
     InternalServerErrorException |-> <<500, "Internal Server Error">>,
     ServiceUnavailableException |-> <<503, "Service Availability">>,
     ValidationException |-> <<422, "">>,
     BusinessException |-> <<400, "">>]

\* the route handler has raised an error built from the input's arguments
Built == adp_exc.class \in DOMAIN Documented /\ adp_exc.class = adp_input.class

\* C20: an error type built from a message (and a process label, for the base
\* and the validation type) has the documented status code and, when no label
\* is given, the documented default label; its error list defaults to the
\* empty list.  An error of the eight fixed types has the documented status
\* code whatever the arguments (the constructor takes no status code); only
\* the base and the validation type take the status code given.
C20_ErrorDefaults ==
    /\ Built =>
          /\ adp_exc.message = adp_input.args.message
          /\ adp_exc.status_code =
                IF "status_code" \in DOMAIN adp_input.args
                THEN adp_input.args.status_code
                ELSE Documented[adp_exc.class][1]
          /\ adp_exc.process =
                IF "process" \in DOMAIN adp_input.args THEN adp_input.args.process
                ELSE Documented[adp_exc.class][2]
          /\ "errors" \notin DOMAIN adp_input.args => adp_exc.errors = <<>>
          /\ adp_exc.class \notin {"BusinessException", "ValidationException"} =>
                adp_exc.status_code = Documented[adp_exc.class][1]
    /\ adp_exc.class = "TypeError" =>
          \/ "status_code" \in DOMAIN adp_input.args
          \/ adp_input.class \in {"BusinessException", "ValidationException"}
             /\ "process" \notin DOMAIN adp_input.args

\* a not-found error built from a message alone
C20_Witness ==
    /\ adp_input.class = "NotFoundException"
    /\ DOMAIN adp_input.args = {"message"}
    /\ adp_exc.class = "NotFoundException"
    /\ adp_exc.status_code = 404
    /\ adp_exc.process = "Resource Lookup"

\* C21: to_dict() of a business error has exactly the keys message, process
\* and errors (never the status code); message and process are the error's
\* own; errors is the empty list when the constructor was given no list (its
\* default, None), and the list it was given otherwise.
C21_ToDict ==
    adp_dict # <<>> =>
        LET d == adp_dict[1]
        IN  /\ DOMAIN d = {"message", "process", "errors"}
            /\ d.message = adp_exc.message
            /\ d.process = adp_exc.process
            /\ "errors" \notin DOMAIN adp_input.args => d.errors = <<>>
            /\ "errors" \in DOMAIN adp_input.args => d.errors = adp_input.args["errors"]

\* to_dict() of an error with a status code of its own, built without a list
C21_Witness ==
    /\ adp_dict # <<>>
    /\ adp_exc.class = "ConflictException"
    /\ adp_exc.status_code = 409
    /\ "errors" \notin DOMAIN adp_input.args
    /\ adp_dict[1].errors = <<>>

----------------------------------------------------------------------------
(* Properties of the paginated constructors *)

PageNext ==
    \/ CallOkFromPage
    \/ CallOkWithPagination

InitPage ==
    /\ ProvInit /\ CfgInit /\ DecInit /\ ReqInit
    /\ adp_input = NoInput /\ adp_exc = NoRaised /\ adp_response = NoResponse
    /\ adp_dict = <<>>
    /\ PageCalls

SpecPage == InitPage /\ [][PageNext]_vars

\* the argument total_elements was given to ok_from_page
TotalGiven == pag_input.op = "ok_from_page" /\ pag_input.total_elements # <<>>

\* p is the least number of pages of size s that hold n elements
IsCeiling(p, n, s) == p * s >= n /\ (p - 1) * s < n

\* C18: ok_from_page with total_elements = n >= 0 on a pagination of size
\* s > 0 returns the page data with a pagination whose total_elements is n
\* and whose total_pages is ceil(n / s): 3 for 23 and 10, 2 for 20 and 10,
\* 0 for n = 0.
C18_TotalPages ==
    pag_result # <<>> /\ TotalGiven /\ pag_input.pagination.size > 0 =>
        LET n == pag_input.total_elements[1]
            s == pag_input.pagination.size
            out == pag_result[1]
        IN  /\ out.data = pag_input.data
            /\ out.pagination.total_elements = <<n>>
            /\ out.pagination.total_pages # <<>>
            /\ IsCeiling(out.pagination.total_pages[1], n, s)
            /\ n = 23 /\ s = 10 => out.pagination.total_pages = <<3>>
            /\ n = 20 /\ s = 10 => out.pagination.total_pages = <<2>>
            /\ n = 0 => out.pagination.total_pages = <<0>>

\* 23 elements in pages of 10 gave 3 pages
C18_Witness ==
    /\ pag_result # <<>>
    /\ pag_input.op = "ok_from_page"
    /\ pag_input.total_elements = <<23>>
    /\ pag_input.pagination.size = 10
    /\ pag_result[1].pagination.total_pages = <<3>>

\* C19 as stated: the pagination of the response differs from the one given
\* only when total_elements is given and size > 0.
C19_PassThroughUnlessBoth ==
    pag_result # <<>> =>
        (TotalGiven /\ pag_input.pagination.size > 0)
        \/ pag_result[1].pagination = pag_input.pagination

\* C19: ok_from_page never changes page and size; it changes total_elements
\* only when total_elements is given (whatever the size) and total_pages only
\* when total_elements is given and size > 0; when total_elements is omitted
\* the four fields are those given, as with ok_with_pagination.
C19_FrameOfOkFromPage ==
    pag_result # <<>> =>
        LET before == pag_input.pagination
            after  == pag_result[1].pagination
        IN  /\ after.page = before.page /\ after.size = before.size
            /\ after.total_elements # before.total_elements => TotalGiven
            /\ after.total_pages # before.total_pages => TotalGiven /\ before.size > 0
            /\ ~TotalGiven => after = before
            /\ TotalGiven /\ before.size <= 0 =>
                  /\ after.total_elements = pag_input.total_elements
                  /\ after.total_pages = before.total_pages

\* total_elements was given for a pagination of size 0: it was set, and
\* total_pages was left as it was
C19_Witness ==
    /\ pag_result # <<>>
    /\ TotalGiven
    /\ pag_input.pagination.size = 0
    /\ pag_input.pagination.total_elements = <<5>>
    /\ pag_result[1].pagination.total_elements = <<20>>
    /\ pag_result[1].pagination.total_pages = pag_input.pagination.total_pages

\* the field constraints of Pagination, which its constructor validates
Accepted(p) ==
    /\ p.page >= 0
    /\ p.size > 0
    /\ p.total_elements # <<>> => p.total_elements[1] >= 0
    /\ p.total_pages # <<>> => p.total_pages[1] >= 0

\* C23 as stated: the pagination of a response built by ok_with_pagination or
\* ok_from_page from a pagination the constructor accepts, with any integer
\* total, has no negative total_elements or total_pages, and its total_pages
\* is ceil(total_elements / size) whenever both are known.
C23_PaginationInvariant ==
    pag_result # <<>> /\ Accepted(pag_input.pagination) =>
        LET p == pag_result[1].pagination
        IN  /\ p.total_elements # <<>> => p.total_elements[1] >= 0
            /\ p.total_pages # <<>> => p.total_pages[1] >= 0
            /\ p.total_elements # <<>> /\ p.total_pages # <<>> =>
                  IsCeiling(p.total_pages[1], p.total_elements[1], p.size)

----------------------------------------------------------------------------
(* Properties of the provider's token cache and of its clients *)

\* the last call was a token accessor call on a non-closed provider that was
\* not due for reinitialization, and it raised: its one token fetch failed
RefreshFailed ==
    /\ last.op \in TokenAccessors
    /\ OnOpen /\ ~WasDue
    /\ last.exc # "none"

\* C24 as stated: a token fetch that fails, for whatever reason, leaves the
\* cached token and the cached expiry as they were.
C24_FailedFetchKeepsCache ==
    RefreshFailed =>
        /\ access_token = last.pre.access_token
        /\ token_expires_at = last.pre.token_expires_at

\* C25 as stated: when get_admin_access_token returns, the time of the call
\* is strictly before the cached expiry, whatever expires_in was.
C25_ReturnsBeforeExpiry ==
    last.op = "get_admin_access_token" /\ last.exc = "none" =>
        last.t < token_expires_at

\* every request of the last call was answered with a 2xx that carries a token
AllGood == \A i \in 1..Len(last.reqs) : Good(last.reqs[i])

\* C27: a token accessor called on a non-closed provider, in whatever state
\* earlier failed fetches and failed reinitializations left it, returns a
\* non-empty token without raising when the identity provider answers each
\* of its requests with a token.
C27_NoWedge ==
    last.op \in TokenAccessors /\ OnOpen /\ AllGood =>
        /\ last.exc = "none"
        /\ last.ret # <<>>
        /\ Truthy(last.ret[Len(last.ret)])
        /\ last.ret[Len(last.ret)] = access_token

\* a call on a provider whose last fetch had left no token (a 2xx without
\* access_token) returned the token of a new fetch
C27_Witness ==
    /\ last.op = "get_admin_access_token"
    /\ last.pre.client # NoClient
    /\ ~Truthy(last.pre.access_token)
    /\ last.reqs # <<>> /\ AllGood
    /\ last.exc = "none"
    /\ last.ret = <<LastResp.access_token>>

\* C28 as stated: one call of get_admin_access_token sends at most one token
\* request.
C28_AtMostOneRequest ==
    last.op = "get_admin_access_token" => Len(last.reqs) <= 1

\* C29 as stated: a client the provider replaces is closed, so no client but
\* the current one is open, and none is after close().
C29_ReplacedClientClosed ==
    /\ OnOpen /\ client # last.pre.client => last.pre.client \notin openClients
    /\ last.op = "close" => last.pre.client \notin openClients

----------------------------------------------------------------------------
(* The credentials of the token request *)

\* values of a configuration field: None, the empty string, or a value of
\* its own (named after the field, so that the request shows where each of
\* its values came from)
FieldValues(f) == {None, "", f}

\* configurations a provider is constructed with, for every combination of
\* present and absent values of the fields _refresh_token reads
CredConfigs ==
    { [f \in Fields |->
          CASE f = "server_url" -> su
            [] f = "realm" -> re
            [] f = "client_id" -> ci
            [] f = "client_secret" -> cs
            [] f = "admin_client_id" -> ai
            [] f = "admin_client_secret" -> as
            [] f = "callback_uri" -> None] :
        su \in FieldValues("server_url"), re \in FieldValues("realm"),
        ci \in FieldValues("client_id"), cs \in FieldValues("client_secret"),
        ai \in FieldValues("admin_client_id"),
        as \in FieldValues("admin_client_secret") }

\* answers of the identity provider: a token that is expired at once, a token
\* that lasts, and a failure
CredResponses ==
    { r \in Responses :
        \/ r.kind = "http_error"
        \/ r.kind = "2xx" /\ r.access_token = "tokA" /\ r.has_expires_in
              /\ r.expires_in \in {60, 1200} }

\* what the token endpoint saw of a call that ran _refresh_token on cfg and
\* sent the requests reqs: the form of the last request, or that the
\* configuration check raised before any request
RequestOf(cfg, reqs) ==
    IF reqs = <<>> THEN [kind |-> "raised", data |-> NoRequest.data]
    ELSE [kind |-> "sent", data |-> TokenRequestData(cfg)]

\* KeycloakAuthProvider(config) with any configuration
ConstructWithConfig ==
    /\ ~exists
    /\ cred_request = NoRequest
    /\ \E cfg \in CredConfigs, resp \in CredResponses :
         LET o == Initialize(FreshProvider(cfg), now, nClients + 1, resp)
         IN  /\ cred_request' = RequestOf(cfg, o.reqs)
             /\ IF o.exc = "none"
                THEN /\ exists' = TRUE
                     /\ Record("construct", o, <<>>, NoClient)
                ELSE /\ exists' = FALSE
                     /\ nClients' = nClients + 1
                     /\ openClients' = openClients \cup {nClients + 1}
                     /\ last' = Call("construct", NoProvider, o, <<>>, NoClient)
                     /\ UNCHANGED <<config, access_token, token_expires_at,
                                    last_init_time, client>>
    /\ UNCHANGED <<now, thr, cfgVars, decVars, httpVars>>

\* get_admin_access_token on the provider that was constructed
RefreshWithConfig ==
    /\ exists
    /\ \E r1, r2 \in CredResponses :
         LET o == GetAdminAccessToken(Prov, now, nClients + 1, r1, r2)
         IN  /\ Record("get_admin_access_token", o, TokenOf(o), NoClient)
             /\ cred_request' = IF o.reqs = <<>> THEN cred_request
                                 ELSE RequestOf(config, o.reqs)
    /\ UNCHANGED <<now, exists, thr, cfgVars, decVars, httpVars>>

CredNext ==
    \/ ConstructWithConfig
    \/ RefreshWithConfig
    \/ Tick

SpecCredentials == Init /\ [][CredNext]_vars

\* the two credential pairs of a configuration
AdminPair(cfg) == <<cfg["admin_client_id"], cfg["admin_client_secret"]>>
RegularPair(cfg) == <<cfg["client_id"], cfg["client_secret"]>>

\* C30 as stated: the id and the secret of a token request are those of one
\* client: the admin pair, or else the regular pair.
C30_MatchingPair ==
    cred_request.kind = "sent" /\ exists =>
        <<cred_request.data.client_id, cred_request.data.client_secret>>
            \in {AdminPair(config), RegularPair(config)}

----------------------------------------------------------------------------
(* get_admin_access_token called from two threads on one provider.  The
   method and the methods it calls are synchronous and take no lock, so
   another thread may run between any two statements; every read and every
   write of a field of the provider is a step of its own.  The clock does not
   move during the calls, and a reinitialization is taken as one step. *)

\* answers of the identity provider to the concurrent callers
ConcResponses ==
    { r \in Responses :
        \/ r.kind = "http_error"
        \/ r.kind = "2xx" /\ r.access_token = None
        \/ r.kind = "2xx" /\ r.access_token = "tokA" /\ r.has_expires_in /\ r.expires_in = 60
        \/ r.kind = "2xx" /\ r.access_token = "tokB" /\ r.has_expires_in
              /\ r.expires_in = 1200 }

\* the times at which the callers arrive
ConcTimes == {0, TickSeconds, RECONNECT_INTERVAL_SECONDS + TickSeconds}

\* a provider constructed at time 0 whose token request was answered with a
\* token, shared by two threads that are about to call it
InitProviderConc ==
    /\ now \in ConcTimes
    /\ exists = TRUE
    /\ config = FullConfig
    /\ client = 1 /\ nClients = 1 /\ openClients = {1}
    /\ last_init_time = 0
    /\ \E r \in { x \in Responses : Good(x) /\ x.has_expires_in } :
         /\ access_token = r.access_token
         /\ token_expires_at = ExpiryOf(0, r)
         /\ last = [op |-> "construct", t |-> 0, pre |-> NoProvider, exc |-> "none",
                    reqs |-> <<r>>, ret |-> <<>>, ret_client |-> NoClient]
    /\ CfgInit /\ DecInit /\ HttpInit /\ ReqInit

\* thread c moves to r
Move(c, r) == thr' = [thr EXCEPT ![c] = r]

\* thread c raises exc out of get_admin_access_token
Raised(c, exc) == [thr[c] EXCEPT !.at = "done", !.exc = exc]

\* what the calling threads leave alone
concFrame == UNCHANGED <<now, exists, config, last, cred_request, cfgVars, decVars, httpVars>>

\* the provider's fields a step leaves alone
fieldsFrame ==
    UNCHANGED <<access_token, token_expires_at, last_init_time, client, nClients,
                openClients>>

\* thread c enters _refresh_token, which returns to `back`: the configuration
\* check, then the POST
EnterRefresh(c, back, expired) ==
    IF ~Truthy(config["server_url"]) \/ ~Truthy(config["realm"])
    THEN [Raised(c, "ValueError") EXCEPT !.saw_expired = expired]
    ELSE [thr[c] EXCEPT !.at = "inflight", !.back = back, !.saw_expired = expired,
                        !.sent = @ + 1]

\* a thread calls get_admin_access_token
P_Call(c) ==
    /\ thr[c].at = "idle"
    /\ Move(c, [thr[c] EXCEPT !.at = "ensure"])
    /\ fieldsFrame /\ concFrame

\* self._ensure_initialized()
P_Ensure(c) ==
    /\ thr[c].at = "ensure"
    /\ Move(c, IF EnsureInitialized(Prov) THEN [thr[c] EXCEPT !.at = "reconnect"]
               ELSE Raised(c, "RuntimeError"))
    /\ fieldsFrame /\ concFrame

\* self._reconnect_if_needed()
P_Reconnect(c) ==
    /\ thr[c].at = "reconnect"
    /\ \E resp \in ConcResponses :
         LET o == ReconnectIfNeeded(Prov, now, nClients + 1, resp)
             r == [thr[c] EXCEPT !.sent = @ + Len(o.reqs)]
         IN  /\ access_token' = o.p.access_token
             /\ token_expires_at' = o.p.token_expires_at
             /\ last_init_time' = o.p.last_init_time
             /\ client' = o.p.client
             /\ nClients' = IF o.p.client # client THEN nClients + 1 ELSE nClients
             /\ openClients' = openClients \cup {o.p.client}
             /\ Move(c, IF o.exc = "none" THEN [r EXCEPT !.at = "test_expiry"]
                        ELSE [r EXCEPT !.at = "done", !.exc = o.exc])
    /\ concFrame

\* a variant in which a caller that finds the token expired leaves the fetch
\* to a caller that is already fetching
P_TestExpiry_SingleFlight(c) ==
    /\ thr[c].at = "test_expiry"
    /\ Move(c, IF TokenExpired(Prov, now)
               THEN IF \E d \in Callers \ {c} : thr[d].at = "inflight"
                    THEN [thr[c] EXCEPT !.at = "test_token", !.saw_expired = TRUE]
                    ELSE EnterRefresh(c, "test_token", TRUE)
               ELSE [thr[c] EXCEPT !.at = "test_token"])
    /\ fieldsFrame /\ concFrame

\* if time.time() >= self._token_expires_at: self._refresh_token()
P_TestExpiry(c) ==
    /\ thr[c].at = "test_expiry"
    /\ Move(c, IF TokenExpired(Prov, now) THEN EnterRefresh(c, "test_token", TRUE)
               ELSE [thr[c] EXCEPT !.at = "test_token"])
    /\ fieldsFrame /\ concFrame

\* the POST is answered: raise_for_status() and response.json()
P_Receive(c) ==
    /\ thr[c].at = "inflight"
    /\ \E resp \in ConcResponses :
         Move(c, CASE resp.kind = "http_error" -> Raised(c, "RuntimeError")
                   [] resp.kind = "bad_body" -> Raised(c, "ValueError")
                   [] OTHER -> [thr[c] EXCEPT !.at = "store_token", !.resp = resp])
    /\ fieldsFrame /\ concFrame

\* self._access_token = token_data.get("access_token")
P_StoreToken(c) ==
    /\ thr[c].at = "store_token"
    /\ access_token' = thr[c].resp.access_token
    /\ Move(c, [thr[c] EXCEPT !.at = "store_expiry"])
    /\ UNCHANGED <<token_expires_at, last_init_time, client, nClients, openClients>>
    /\ concFrame

\* self._token_expires_at = time.time() + expires_in - 60
P_StoreExpiry(c) ==
    /\ thr[c].at = "store_expiry"
    /\ token_expires_at' = ExpiryOf(now, thr[c].resp)
    /\ Move(c, [thr[c] EXCEPT !.at = "check_token"])
    /\ UNCHANGED <<access_token, last_init_time, client, nClients, openClients>>
    /\ concFrame

\* if not self._access_token: raise ValueError; else _refresh_token returns
P_CheckToken(c) ==
    /\ thr[c].at = "check_token"
    /\ Move(c, IF Truthy(access_token) THEN [thr[c] EXCEPT !.at = thr[c].back]
               ELSE Raised(c, "ValueError"))
    /\ fieldsFrame /\ concFrame

\* if not self._access_token: self._refresh_token()
P_TestToken(c) ==
    /\ thr[c].at = "test_token"
    /\ Move(c, IF Truthy(access_token) THEN [thr[c] EXCEPT !.at = "return"]
               ELSE EnterRefresh(c, "return", thr[c].saw_expired))
    /\ fieldsFrame /\ concFrame

\* return self._access_token
P_Return(c) ==
    /\ thr[c].at = "return"
    /\ Move(c, [thr[c] EXCEPT !.at = "done", !.ret = <<access_token>>])
    /\ fieldsFrame /\ concFrame

ProviderConcNext ==
    \E c \in Callers :
        \/ P_Call(c)
        \/ P_Ensure(c)
        \/ P_Reconnect(c)
        \/ P_TestExpiry(c)
        \/ P_Receive(c)
        \/ P_StoreToken(c)
        \/ P_StoreExpiry(c)
        \/ P_CheckToken(c)
        \/ P_TestToken(c)
        \/ P_Return(c)

SpecProviderConc == InitProviderConc /\ [][ProviderConcNext]_vars

\* C22: token refresh is not single-flight: a caller whose expiry test finds
\* the cached token expired posts a token request of its own, whatever the
\* other caller is doing, so two callers can both find it expired and both
\* be fetching at once.
C22_NoSingleFlight ==
    [][\A c \in Callers :
          thr[c].at = "test_expiry" /\ thr'[c].at # "test_expiry"
          /\ now >= token_expires_at =>
              /\ thr'[c].at = "inflight"
              /\ thr'[c].saw_expired
              /\ thr'[c].sent = thr[c].sent + 1]_vars

\* both callers found the token expired and the requests of both are in flight
C22_Witness ==
    \A c \in Callers :
        /\ thr[c].saw_expired
        /\ thr[c].at = "inflight"
        /\ thr[c].back = "test_token"
        /\ thr[c].sent >= 1

\* C26 as stated: whenever get_admin_access_token returns, in every
\* interleaving of concurrent callers, what it returns is a non-empty token.
C26_ReturnsToken ==
    \A c \in Callers : thr[c].ret # <<>> => Truthy(thr[c].ret[1])

====
